---------------------------- MODULE Spec2Model ----------------------------
(***************************************************************************)
(* A model of rpmfile's CPIO ("newc") scanner and member extraction:       *)
(* RPMInfo (the record parser) and RPMFile (the handle's opening and       *)
(* closing, decompressor selection, member index, name lookup, bounded     *)
(* extraction) of src/rpmfile/__init__.py.                                 *)
(*                                                                         *)
(* The decompressed payload is a sequence of bytes (integers 0..255).      *)
(* A stream cursor is a natural number, the value tell() returns.          *)
(***************************************************************************)
EXTENDS Integers, Sequences, FiniteSets, TLC

VARIABLES
    archive,      \* the fixture the payload was built from (never changes)
    payload,      \* the decompressed payload bytes (never changes)
    indexed,      \* RPMFile._members is not None
    members,      \* RPMFile._members, the cached index (empty while it is None)
    dataFile,     \* RPMFile._data_file: None, or the codec it was opened with
    cursor,       \* the cursor of the decompressed stream (shared by all views)
    view,         \* the latest _SubFile returned by extractfile, or None
    scan,         \* what the scan of getmembers() did, or None before it
    resolved,     \* records the caller holds from another handle on the archive
    last,         \* the last call made on the handle and its outcome
    rpm,          \* RPMFile's other fields: _fileobj, _headers, _header_range, _ownes_fd
    world,        \* the path's file, the caller's stream, the modules importable
    run           \* a call of the record parser or a loop in progress, or None

vars == <<archive, payload, indexed, members, dataFile, cursor, view, scan, resolved,
          last, rpm, world, run>>

None == "None"

Min(a, b) == IF a < b THEN a ELSE b

\* The one element of a set of one element: Only({F(x) : x \in {e}}) is
\* F(e) with e computed once, as a local variable of the source is.
Only(S) == CHOOSE x \in S : TRUE

-----------------------------------------------------------------------------
(* Bytes and text.                                                         *)

\* b"07": the two bytes getmembers() compares each 2-byte read with.
Magic07 == <<48, 55>>

\* b"070701": the only magic RPMInfo._read accepts.
MagicNew == <<48, 55, 48, 55, 48, 49>>

\* "TRAILER!!!" as code points.
TrailerName == <<84, 82, 65, 73, 76, 69, 82, 33, 33, 33>>

\* struct.Struct(b"8s8s8s8s8s8s8s8s8s8s8s8s8s"): 13 fields of 8 bytes.
FieldWidth == 8
FieldCount == 13
CoderSize == FieldCount * FieldWidth

IsHexDigit(b) == (b \in 48..57) \/ (b \in 65..70) \/ (b \in 97..102)

HexDigitValue(b) ==
    IF b \in 48..57 THEN b - 48
    ELSE IF b \in 65..70 THEN b - 55
    ELSE b - 87

\* int(field, 16) on a field of hex digits; any other byte of the modelled
\* alphabet makes int() raise ValueError (IsHexField is FALSE).
IsHexField(f) == Len(f) > 0 /\ \A i \in 1..Len(f) : IsHexDigit(f[i])

HexInt(f) ==
    LET value[i \in 0..Len(f)] ==
            IF i = 0 THEN 0 ELSE 16 * value[i - 1] + HexDigitValue(f[i])
    IN  value[Len(f)]

\* bytes.decode("utf-8"): bytes below 128 decode to themselves. In the
\* modelled alphabet no byte from 128 on is followed by a continuation byte
\* (128..191), so every such byte makes decode raise UnicodeDecodeError
\* (ok = FALSE).
DecodeUtf8(bs) ==
    IF \A i \in 1..Len(bs) : bs[i] < 128
    THEN [ok |-> TRUE, text |-> bs]
    ELSE [ok |-> FALSE, text |-> <<>>]

-----------------------------------------------------------------------------
(* The stream: read(n), seek(n, 1).                                        *)

\* fileobj.read(n) at cursor pos: at most n bytes, fewer at the end.
ReadBytes(data, pos, n) == SubSeq(data, pos + 1, Min(pos + n, Len(data)))

\* fileobj.seek(n, 1) at cursor pos on a decompressing reader: it reads and
\* discards, so it stops at the end of the stream.
SeekCur(data, pos, n) == Min(pos + n, Len(data))

\* A slip in pad: the outer modulo left out, so that an aligned position
\* is padded by 4.
pad_without_outer_modulo(pos) == 4 - (pos % 4)

\* pad = lambda fileobj: (4 - (fileobj.tell() % 4)) % 4
pad(pos) == (4 - (pos % 4)) % 4


-----------------------------------------------------------------------------
(* RPMInfo: one record of the archive.                                     *)

\* RPMInfo.__init__(name, file_start, file_size, initial_offset, header)
RPMInfo(name, file_start, file_size, initial_offset, header) ==
    [name |-> name, file_start |-> file_start, size |-> file_size,
     initial_offset |-> initial_offset, header |-> header]

\* header[i] with the source's 0-based index.
Field(header, i) == header[i + 1]

\* int("0170000", 8) and int("0040000", 8)
S_IFMT == 61440
S_IFDIR == 16384

\* Python's a & b on non-negative integers below 2^31: bit i of the result
\* is set when bit i of both is.
BitAnd(a, b) ==
    LET from[i \in 0..31] ==
            IF i = 31 THEN 0
            ELSE (IF (a \div 2^i) % 2 = 1 /\ (b \div 2^i) % 2 = 1 THEN 2^i ELSE 0)
                 + from[i + 1]
    IN  from[0]

\* A slip in isdir: the directory bit tested without masking the type.
isdir_bit_test(m) == BitAnd(HexInt(Field(m.header, 1)), S_IFDIR) # 0

\* RPMInfo.isdir: int(header[1], 16) & 0170000 == 0040000
isdir(m) == BitAnd(HexInt(Field(m.header, 1)), S_IFMT) = S_IFDIR

\* An exception raised with the stream cursor left at pos, the last byte read
\* being the one before read_to.
Raise(kind, pos, read_to) == [status |-> kind, pos |-> pos, read_to |-> read_to]

\* bytes[:-1]
DropLast(bs) == IF Len(bs) = 0 THEN <<>> ELSE SubSeq(bs, 1, Len(bs) - 1)

\* coder.unpack_from(buffer): the 13 fields of 8 bytes.
Unpack(raw) ==
    [i \in 1..FieldCount |-> SubSeq(raw, (i - 1) * FieldWidth + 1, i * FieldWidth)]

\* _read_new from `file_start = fileobj.tell()` on (lines 109-115):
\* file_size = int(d[6], 16), the two seeks of skip-content mode, and the
\* record returned. name_end is where the last read() ended.
ReadContent(data, initial_offset, d, name, name_end, file_start, skip_content) ==
    IF ~IsHexField(Field(d, 6)) THEN Raise("value_error", file_start, name_end)
    ELSE [status |-> "ok",
          member |-> RPMInfo(name, file_start, HexInt(Field(d, 6)), initial_offset, d),
          read_to |-> name_end,
          pos |-> IF skip_content
                  THEN SeekCur(data, SeekCur(data, file_start, HexInt(Field(d, 6))),
                               pad(SeekCur(data, file_start, HexInt(Field(d, 6)))))
                  ELSE file_start]

\* _read_new from the name just read on (lines 107-108): [:-1], decode,
\* and the seek over the padding that follows the name.
ReadName(data, initial_offset, d, rawname, name_end, skip_content) ==
    IF ~DecodeUtf8(DropLast(rawname)).ok THEN Raise("unicode_error", name_end, name_end)
    ELSE Only({ReadContent(data, initial_offset, d, name, name_end, file_start,
                           skip_content) :
                  name \in {DecodeUtf8(DropLast(rawname)).text},
                  file_start \in {SeekCur(data, name_end, pad(name_end))}})

\* _read_new from the unpacked header on (lines 106-107):
\* namesize = int(d[11], 16) and the read of the name.
ReadFields(data, initial_offset, d, header_end, skip_content) ==
    IF ~IsHexField(Field(d, 11)) THEN Raise("value_error", header_end, header_end)
    ELSE Only({ReadName(data, initial_offset, d, rawname, header_end + Len(rawname),
                        skip_content) :
                  rawname \in {ReadBytes(data, header_end, HexInt(Field(d, 11)))}})

\* _read_new once the header bytes are read (line 104): unpack_from raises
\* struct.error on fewer than 104 bytes.
ReadHeader(data, initial_offset, raw, skip_content) ==
    IF Len(raw) < CoderSize
    THEN Raise("struct_error", initial_offset + Len(raw), initial_offset + Len(raw))
    ELSE Only({ReadFields(data, initial_offset, d, initial_offset + CoderSize,
                          skip_content) :
                  d \in {Unpack(raw)}})

\* RPMInfo._read_new(fileobj, magic, skip_content) with the cursor at pos,
\* right after the 6 bytes of magic: the record and the cursor it leaves, or
\* the exception raised. initial_offset = fileobj.tell() is pos.
_read_new(data, pos, skip_content) ==
    Only({ReadHeader(data, pos, raw, skip_content) :
            raw \in {ReadBytes(data, pos, CoderSize)}})

\* RPMInfo._read(magic, fileobj, skip_content): the format error for every
\* magic but 070701.
_read(magic, data, pos, skip_content) ==
    IF magic = MagicNew THEN _read_new(data, pos, skip_content)
    ELSE Raise("bad_magic", pos, pos)

-----------------------------------------------------------------------------
(* RPMFile.getmembers: the scan.                                           *)

\* The scan's bookkeeping: the index being built (members), every record
\* parsed (parsed, directories included), the TRAILER!!! record met
\* (trailer, a sequence of at most one record), the offsets of the 2-byte
\* reads that did not hold b"07" (skipped), the cursor (pos), and the end of
\* the last read() made (read_to).
ScanStart(pos) ==
    [status |-> "scanning", start |-> pos, pos |-> pos, read_to |-> pos,
     members |-> <<>>, parsed |-> <<>>, trailer |-> <<>>, skipped |-> {}]

\* The offsets pos, pos + 2, ... at which g.read(2) returns b"07".
MagicOffsets(data, pos) ==
    {q \in pos..Len(data) : (q - pos) % 2 = 0 /\ ReadBytes(data, q, 2) = Magic07}

\* The least offset of a set of offsets.
Least(S) == CHOOSE q \in S : \A r \in S : q <= r

\* The scan after the 2-byte reads from st.pos on that did not hold b"07":
\* `stop` is where the next 2-byte read begins.
Skipped(data, st, stop, found) ==
    [found |-> found,
     st |-> [st EXCEPT !.skipped = @ \cup {q \in st.pos..(stop - 1) : (q - st.pos) % 2 = 0},
                       !.pos = IF found THEN stop + 2 ELSE stop,
                       !.read_to = IF found THEN stop + 2
                                   ELSE IF stop > st.pos THEN stop ELSE @]]

\* The while loop of getmembers() for as long as `magic` is neither empty
\* nor b"07": 2-byte reads from st.pos on, up to the first that returns
\* b"07" (found) or the end of the stream (where read() returns b"" and the
\* loop ends).
SkipToMagic(data, st) ==
    IF ReadBytes(data, st.pos, 2) = Magic07 THEN Skipped(data, st, st.pos, TRUE)
    ELSE IF MagicOffsets(data, st.pos) = {}
    THEN Skipped(data, st, IF st.pos > Len(data) THEN st.pos ELSE Len(data), FALSE)
    ELSE Skipped(data, st, Least(MagicOffsets(data, st.pos)), TRUE)

\* A slip at the break: the terminator is compared with a name that never
\* occurs, so the scan runs on past it.
IsTrailer_wrong_name(member) == member.name = <<84, 82, 65, 73, 76, 69, 82>>

\* if member.name == "TRAILER!!!": break
IsTrailer(member) == member.name = TrailerName

RECURSIVE ScanLoop(_, _)

\* The body of the while loop after member = RPMInfo._read(magic, g)
\* returned r (lines 172-178), with the scan at st.
ScanRecord(data, st, r) ==
    IF r.status # "ok"
    THEN [st EXCEPT !.status = r.status, !.pos = r.pos, !.read_to = r.read_to]
    ELSE IF IsTrailer(r.member)
    THEN [st EXCEPT !.status = "ok", !.pos = r.pos, !.read_to = r.read_to,
                    !.trailer = <<r.member>>]
    ELSE IF ~IsHexField(Field(r.member.header, 1))
    THEN [st EXCEPT !.status = "value_error", !.pos = r.pos, !.read_to = r.read_to]
    ELSE ScanLoop(data, [st EXCEPT !.pos = r.pos, !.read_to = r.read_to,
                                   !.parsed = Append(@, r.member),
                                   !.members = IF isdir(r.member) THEN @
                                               ELSE Append(@, r.member)])

\* magic += g.read(4); member = RPMInfo._read(magic, g) (lines 169-170),
\* with b"07" just read and the cursor at st.pos.
ScanMagic(data, st, more) ==
    ScanRecord(data, st, _read(Magic07 \o more, data, st.pos + Len(more), TRUE))

\* The while loop, once the 2-byte reads have reached b"07" or the end.
ScanFrom(data, skip) ==
    IF ~skip.found THEN [skip.st EXCEPT !.status = "ok"]
    ELSE ScanMagic(data, skip.st, ReadBytes(data, skip.st.pos, 4))

\* The while loop of getmembers(), entered with the cursor at st.pos and
\* `magic` about to be read.
ScanLoop(data, st) == ScanFrom(data, SkipToMagic(data, st))

\* The scan of getmembers() from cursor pos: lines 165-179.
Scan(data, pos) == ScanLoop(data, ScanStart(pos))

-----------------------------------------------------------------------------
(* The archives the handle is opened on.                                   *)

\* The most records an archive holds before its terminator.
MaxRecords == 2

\* "%08X" % n
RECURSIVE HexDigits(_, _)
HexDigits(n, width) ==
    IF width = 0 THEN <<>>
    ELSE HexDigits(n \div 16, width - 1)
         \o <<IF n % 16 < 10 THEN 48 + (n % 16) ELSE 55 + (n % 16)>>

Zeros(n) == [i \in 1..n |-> 0]

\* The 13 header fields of a record: inode, mode, uid, gid, nlink, mtime,
\* filesize, devmajor, devminor, rdevmajor, rdevminor, namesize, checksum.
HeaderFields(item) ==
    <<1, item.mode, 0, 0, 1, 0, Len(item.content), 0, 0, 0, 0, Len(item.name) + 1, 0>>

RECURSIVE HexFields(_)
HexFields(fs) ==
    IF Len(fs) = 0 THEN <<>> ELSE HexDigits(Head(fs), FieldWidth) \o HexFields(Tail(fs))

\* `prefix` followed by one record: magic, header, name, NUL, padding to a
\* multiple of 4, content, padding to a multiple of 4.
WithRecord(prefix, magic, item) ==
    LET named == prefix \o magic \o HexFields(HeaderFields(item)) \o item.name \o <<0>>
        filled == named \o Zeros(pad(Len(named))) \o item.content
    IN  filled \o Zeros(pad(Len(filled)))

RECURSIVE WithRecords(_, _)
WithRecords(prefix, items) ==
    IF Len(items) = 0 THEN prefix
    ELSE WithRecords(WithRecord(prefix, MagicNew, Head(items)), Tail(items))

\* Modes: a regular file 0100644, a directory 0040755, a block device
\* 0060644 (type bits 0100000, 0040000, 0060000 and permission bits).
ModeFile == 32768 + 420
ModeDir == S_IFDIR + 493
ModeDevice == 24576 + 420

\* The records archives are made of: a regular file "a" whose content
\* starts with the bytes "07", a directory "d" and a device node "bc".
Kinds ==
    { [name |-> <<97>>, mode |-> ModeFile, content |-> <<48, 55, 33>>],
      [name |-> <<100>>, mode |-> ModeDir, content |-> <<>>],
      [name |-> <<98, 99>>, mode |-> ModeDevice, content |-> <<97>>] }

TrailerItem == [name |-> TrailerName, mode |-> 0, content |-> <<>>]

\* A record that follows the terminator in some archives.
AfterItem == [name |-> <<122>>, mode |-> ModeFile, content |-> <<111, 107>>]

\* b"070707", the magic of the portable ASCII format, and the two bytes of
\* the binary format's magic (octal 070707) with two bytes of its header.
MagicOld == <<48, 55, 48, 55, 48, 55>>
BinaryStart == <<199, 113, 0, 1>>

\* How an archive ends after its records.
Shapes == {"trailer", "tail", "no_trailer", "old_magic", "binary"}

\* The decompressed payload of an archive.
Build(a) ==
    LET body == WithRecords(<<>>, a.items)
    IN  CASE a.shape = "trailer" -> WithRecord(body, MagicNew, TrailerItem)
          [] a.shape = "tail" ->
                WithRecord(WithRecord(body, MagicNew, TrailerItem), MagicNew, AfterItem)
                \o Magic07
          [] a.shape = "no_trailer" -> body
          [] a.shape = "old_magic" ->
                WithRecord(WithRecord(body, MagicOld, AfterItem), MagicNew, TrailerItem)
          [] a.shape = "binary" ->
                WithRecord(body \o BinaryStart, MagicNew, TrailerItem)

RECURSIVE SeqsUpTo(_, _)
SeqsUpTo(S, n) ==
    IF n = 0 THEN {<<>>}
    ELSE LET shorter == SeqsUpTo(S, n - 1)
         IN  shorter \cup {Append(q, x) : q \in {t \in shorter : Len(t) = n - 1}, x \in S}

Archives == [items : SeqsUpTo(Kinds, MaxRecords), shape : Shapes]

-----------------------------------------------------------------------------
(* RPMFile: construction and release.                                      *)

\* What the try/import lines 8-15 and sys.version_info give: whether the
\* lzma and zstandard modules were imported, and the interpreter's version.
Environments ==
    [lzma : BOOLEAN, zstandard : BOOLEAN, version : {<<2, 7>>, <<3, 4>>, <<3, 8>>}]

FullEnv == [lzma |-> TRUE, zstandard |-> TRUE, version |-> <<3, 8>>]

\* The values of the archive_compression tag: the three the selector
\* names, two others, and None for a tag that is present and unset.
Compressions == {"xz", "zstd", "bzip2", "gzip", "lzma", None}

\* The header maps the locator returns: a mapping from tag name to value,
\* with or without the archive_compression tag.
HeaderMaps ==
    {[name |-> "pkg"]} \cup {[name |-> "pkg", archive_compression |-> c] : c \in Compressions}

GzipHeaders == [name |-> "pkg", archive_compression |-> "gzip"]

\* The byte range of the lead, signature and header sections.
HeaderRange == <<0, 96 + 16>>

\* The world a handle is constructed in: the modules (env), the headers the
\* archive holds, the file at the archive's path (how many times io.open
\* opened it, whether the constructor read or seeked it, whether it was
\* closed), the stream the caller holds, and the calls of the header locator
\* made.
NewWorld(env, headers) ==
    [env |-> env, headers |-> headers,
     file |-> [opens |-> 0, touched |-> FALSE, closed |-> FALSE],
     stream |-> [touched |-> FALSE, closed |-> FALSE],
     locator |-> 0]

\* The handle before __init__ ran.
Unopened ==
    [state |-> "unopened", fileobj |-> None, ownes_fd |-> FALSE, headers |-> <<>>,
     header_range |-> <<>>, selections |-> 0]

\* The fileobj arguments: None, a stream, and a stream whose truth value is
\* false (an object with __len__() == 0 or __bool__() false).
Streams == {"stream", "falsy_stream"}

Truthy(fileobj) == fileobj = "stream"

\* get_headers(self._fileobj) and the two assignments that follow it
\* (lines 133-134), the handle's stream being `f` ("file" or "stream").
WithHeaders(w, f, fileobj) ==
    [status |-> "ok",
     world |-> [w EXCEPT ![f].touched = TRUE, !.locator = @ + 1],
     rpm |-> [state |-> "opened", fileobj |-> f, ownes_fd |-> (fileobj = None),
              headers |-> w.headers, header_range |-> HeaderRange, selections |-> 0]]

\* A constructor that raised: no handle is made.
NotConstructed(w, kind) ==
    [status |-> kind, world |-> w, rpm |-> [Unopened EXCEPT !.state = "failed"]]

\* self._fileobj = fileobj or io.open(name, mode) (line 132) and what
\* follows: io.open(None, mode) raises TypeError.
Acquire(w, name, fileobj) ==
    IF fileobj # None /\ Truthy(fileobj) THEN WithHeaders(w, "stream", fileobj)
    ELSE IF name = None THEN NotConstructed(w, "TypeError")
    ELSE WithHeaders([w EXCEPT !.file.opens = @ + 1], "file", fileobj)

\* A slip in __init__: the mode tested after the stream is acquired and the
\* headers are read.
init_checks_mode_late(w, name, mode, fileobj) ==
    IF mode # "rb"
    THEN [Acquire(w, name, fileobj) EXCEPT
             !.status = IF @ = "ok" THEN "NotImplementedError" ELSE @,
             !.rpm = [Unopened EXCEPT !.state = "failed"]]
    ELSE Acquire(w, name, fileobj)

\* RPMFile.__init__(name, mode, fileobj) in world w: the handle made, the
\* world left, and the exception raised if any.
__init__(w, name, mode, fileobj) ==
    IF mode # "rb" THEN NotConstructed(w, "NotImplementedError")
    ELSE Acquire(w, name, fileobj)

\* RPMFile.__exit__: if self._ownes_fd: self._fileobj.close()
__exit__(w, r) ==
    [world |-> IF r.ownes_fd THEN [w EXCEPT ![r.fileobj].closed = TRUE] ELSE w,
     rpm |-> [r EXCEPT !.state = "closed"]]

-----------------------------------------------------------------------------
(* RPMFile: the handle's methods, as functions of the handle's fields      *)
(* h = [indexed, members, dataFile, cursor, headers, env, selections] and  *)
(* of the payload.                                                         *)

\* self.headers["archive_compression"]: KeyError when the mapping has no
\* such tag.
Subscript(map, key) ==
    IF key \in DOMAIN map THEN [status |-> "ok", value |-> map[key]]
    ELSE [status |-> "key_error", value |-> None]

\* sys.version_info.major >= 3 and sys.version_info.minor >= 5
HasBytesIO(env) == env.version[1] >= 3 /\ env.version[2] >= 5

\* A slip in the selector: one error for either missing module.
SelectDecompressor_one_error(tag, env) ==
    IF tag = "xz" THEN
        IF ~env.lzma THEN [status |-> "NoLZMAModuleError", codec |-> None]
        ELSE [status |-> "ok", codec |-> "lzma.LZMAFile"]
    ELSE IF tag = "zstd" THEN
        IF ~env.zstandard THEN [status |-> "NoLZMAModuleError", codec |-> None]
        ELSE IF ~HasBytesIO(env) THEN [status |-> "NoBytesIOError", codec |-> None]
        ELSE [status |-> "ok", codec |-> "zstandard.stream_reader"]
    ELSE IF tag = "bzip2" THEN [status |-> "ok", codec |-> "bz2.BZ2File"]
    ELSE [status |-> "ok", codec |-> "gzip"]

\* The if/elif chain of data_file (lines 216-230) on the tag's value: the
\* decompressor constructed ("gzip" is gzip.GzipFile), or the error raised.
SelectDecompressor(tag, env) ==
    IF tag = "xz" THEN
        IF ~env.lzma THEN [status |-> "NoLZMAModuleError", codec |-> None]
        ELSE [status |-> "ok", codec |-> "lzma.LZMAFile"]
    ELSE IF tag = "zstd" THEN
        IF ~env.zstandard THEN [status |-> "NoZSTANDARDModuleError", codec |-> None]
        ELSE IF ~HasBytesIO(env) THEN [status |-> "NoBytesIOError", codec |-> None]
        ELSE [status |-> "ok", codec |-> "zstandard.stream_reader"]
    ELSE IF tag = "bzip2" THEN [status |-> "ok", codec |-> "bz2.BZ2File"]
    ELSE [status |-> "ok", codec |-> "gzip"]

\* data_file once the chain ran on handle h with outcome sel: the stream is
\* cached only when one was constructed.
Selected(h, sel) ==
    [status |-> sel.status,
     h |-> [h EXCEPT !.selections = @ + 1,
                     !.dataFile = IF sel.status = "ok" THEN sel.codec ELSE @]]

\* data_file with self._data_file None, the tag looked up with outcome tag.
SelectFor(h, tag) ==
    IF tag.status # "ok"
    THEN [status |-> tag.status, h |-> [h EXCEPT !.selections = @ + 1]]
    ELSE Selected(h, SelectDecompressor(tag.value, h.env))

\* The data_file property: the handle it leaves and the exception raised
\* if any. The decompressed stream is constructed on the first access that
\* succeeds, and cached.
data_file(h) ==
    IF h.dataFile = None THEN SelectFor(h, Subscript(h.headers, "archive_compression"))
    ELSE [status |-> "ok", h |-> h]

\* What getmembers() leaves and returns after the scan st made on the
\* opened stream of handle g: self._members is bound to the list before the
\* scan and the scan appends to that list, so the records parsed before an
\* exception stay in it.
Scanned(g, st) ==
    [h |-> [g EXCEPT !.indexed = TRUE, !.members = st.members, !.cursor = st.pos],
     status |-> st.status, value |-> st.members, scan |-> <<st>>]

\* getmembers() from `g = self.data_file` on (lines 165-179), the property
\* having returned or raised d: the scan runs from where the stream's
\* cursor is.
ScanOpened(data, d) ==
    IF d.status # "ok"
    THEN [h |-> d.h, status |-> d.status, value |-> <<>>, scan |-> <<>>]
    ELSE Scanned(d.h, Scan(data, d.h.cursor))

\* self._members = _members = [] (line 164), before the stream is asked for.
BindMembers(h) == [h EXCEPT !.indexed = TRUE, !.members = <<>>]

\* A slip in getmembers: `if not self._members` for `is None`, so that an
\* empty index is built again on every call.
getmembers_rescans_empty(data, h) ==
    IF ~h.indexed \/ h.members = <<>>
    THEN ScanOpened(data, data_file(BindMembers(h)))
    ELSE [h |-> h, status |-> "ok", value |-> h.members, scan |-> <<>>]

\* RPMFile.getmembers(): the handle it leaves, the value returned or the
\* exception raised, and the scan made (none when the index was cached or
\* the stream could not be constructed).
getmembers(data, h) ==
    IF ~h.indexed
    THEN ScanOpened(data, data_file(BindMembers(h)))
    ELSE [h |-> h, status |-> "ok", value |-> h.members, scan |-> <<>>]

\* A slip in the lookup: the list searched front to back, first match wins.
SearchForward(ms, name, i) ==
    IF \E j \in 1..i : ms[j].name = name
    THEN CHOOSE j \in 1..i : ms[j].name = name /\ \A k \in 1..(j - 1) : ms[k].name # name
    ELSE 0

\* for m in members[::-1]: if m.name == name: return m
\* The position of the match, 0 when the loop ends without one.
RECURSIVE SearchReversed(_, _, _)
SearchReversed(ms, name, i) ==
    IF i = 0 THEN 0
    ELSE IF ms[i].name = name THEN i
    ELSE SearchReversed(ms, name, i - 1)

\* getmember after members = self.getmembers() returned g, the loop having
\* found position i: the record, or KeyError.
Lookup(g, i) ==
    IF g.status # "ok" THEN [g EXCEPT !.value = <<>>]
    ELSE IF i = 0 THEN [g EXCEPT !.status = "key_error", !.value = <<>>]
    ELSE [g EXCEPT !.value = <<g.value[i]>>]

\* The position the loop of getmember finds in what getmembers() returned.
LookupIn(g, name) ==
    Lookup(g, IF g.status = "ok" THEN SearchReversed(g.value, name, Len(g.value)) ELSE 0)

\* A slip in getmember: the cached index dropped when the name is not found.
DropIndex(r) ==
    IF r.status = "key_error" THEN [r EXCEPT !.h.indexed = FALSE, !.h.members = <<>>]
    ELSE r

getmember_drops_index(data, h, name) == DropIndex(LookupIn(getmembers(data, h), name))

\* RPMFile.getmember(name)
getmember(data, h, name) == LookupIn(getmembers(data, h), name)

\* _SubFile(fileobj, start, size): a window of the stream with its own
\* position; nothing is read when it is made.
SubFile(start, size, member) ==
    [start |-> start, size |-> size, pos |-> 0, got |-> <<>>, eof |-> FALSE,
     member |-> member]

\* What _SubFile.read(n) returns and leaves, having read `bytes` at `at`.
SubFileGot(v, n, at, bytes) ==
    [bytes |-> bytes, cursor |-> at + Len(bytes),
     view |-> [v EXCEPT !.pos = @ + Len(bytes), !.got = @ \o bytes,
                        !.eof = Len(bytes) < n]]

\* _SubFile.read(n): seeks the stream to start + pos and reads at most n
\* bytes, never past start + size.
SubFileRead(data, v, n) ==
    SubFileGot(v, n, Min(v.start + v.pos, Len(data)),
               ReadBytes(data, Min(v.start + v.pos, Len(data)), Min(n, v.size - v.pos)))

\* A slip in extractfile: the view opened at the record's header.
ContentView_at_header(member) == SubFile(member.initial_offset, member.size, member)

\* _SubFile(self.data_file, member.file_start, member.size)
ContentView(member) == SubFile(member.file_start, member.size, member)

\* The return of extractfile (line 205) for `member`, self.data_file
\* having returned or raised d, and the scan made before it.
ViewOf(d, member, scanned) ==
    [h |-> d.h, status |-> d.status, scan |-> scanned,
     value |-> IF d.status = "ok" THEN <<ContentView(member)>> ELSE <<>>]

\* extractfile after member = self.getmember(member) returned g.
Extracted(g) ==
    IF g.status # "ok" THEN g
    ELSE ViewOf(data_file(g.h), g.value[1], g.scan)

\* RPMFile.extractfile(member): member is a name (arg.isinfo = FALSE) or an
\* RPMInfo (arg.isinfo = TRUE).
extractfile(data, h, arg) ==
    IF arg.isinfo
    THEN ViewOf(data_file(h), arg.member, <<>>)
    ELSE Extracted(getmember(data, h, arg.name))

-----------------------------------------------------------------------------
(* The state machine: one handle, and the calls a caller makes on it.      *)

\* The names looked up: "a", and "q", which no archive holds.
LookupNames == {<<97>>, <<113>>}

\* The handle's fields as the methods take them.
Handle ==
    [indexed |-> indexed, members |-> members, dataFile |-> dataFile, cursor |-> cursor,
     headers |-> rpm.headers, env |-> world.env, selections |-> rpm.selections]

\* The records of a list.
Records(ms) == {ms[i] : i \in 1..Len(ms)}

\* The records a caller may hold: those of this handle's index and those
\* resolved by another handle opened on the same archive.
ResolvedRecords ==
    resolved \cup Records(members)

Init ==
    /\ archive \in Archives
    /\ payload = Build(archive)
    /\ indexed = FALSE
    /\ members = <<>>
    /\ dataFile = None
    /\ cursor = 0
    /\ view = <<>>
    /\ scan = <<>>
    /\ resolved = Records(Scan(payload, 0).members)
    /\ last = [op |-> "open", name |-> <<>>, status |-> "ok", value |-> <<>>]
    /\ rpm = __init__(NewWorld(FullEnv, GzipHeaders), "pkg.rpm", "rb", None).rpm
    /\ world = __init__(NewWorld(FullEnv, GzipHeaders), "pkg.rpm", "rb", None).world
    /\ run = <<>>

\* The handle's fields and the scan's record after a call returned r; `last`
\* keeps the call, the name it was about, its outcome, and the record
\* getmember returned.
Returned(r, op, name) ==
    /\ indexed' = r.h.indexed
    /\ members' = r.h.members
    /\ dataFile' = r.h.dataFile
    /\ cursor' = r.h.cursor
    /\ rpm' = [rpm EXCEPT !.selections = r.h.selections]
    /\ scan' = IF r.scan # <<>> THEN r.scan ELSE scan
    /\ last' = [op |-> op, name |-> name, status |-> r.status,
                value |-> IF op = "getmember" THEN r.value ELSE <<>>]

\* rpm.getmembers()
GetMembers ==
    /\ Returned(getmembers(payload, Handle), "getmembers", <<>>)
    /\ UNCHANGED <<archive, payload, view, resolved, world, run>>

\* rpm.getmember(name)
GetMember ==
    \E name \in LookupNames :
        /\ Returned(getmember(payload, Handle, name), "getmember", name)
        /\ UNCHANGED <<archive, payload, view, resolved, world, run>>

\* The caller keeps the view extractfile returned.
ExtractReturned(r, name) ==
    /\ Returned(r, "extractfile", name)
    /\ view' = IF r.status = "ok" THEN r.value ELSE view
    /\ UNCHANGED <<archive, payload, resolved, world, run>>

\* rpm.extractfile(name) and rpm.extractfile(info)
ExtractFile ==
    \/ \E name \in LookupNames :
        ExtractReturned(extractfile(payload, Handle, [isinfo |-> FALSE, name |-> name]),
                        name)
    \/ \E m \in ResolvedRecords :
        ExtractReturned(extractfile(payload, Handle, [isinfo |-> TRUE, member |-> m]),
                        m.name)

\* The view and the stream after a read of the view returned r.
ViewReturned(r) ==
    /\ view' = <<r.view>>
    /\ cursor' = r.cursor
    /\ last' = [op |-> "view.read", name |-> r.view.member.name, status |-> "ok",
                value |-> <<>>]

\* f.read(2) on the view extractfile returned; a read that returns fewer
\* bytes has reached the view's end.
ViewRead ==
    /\ view # <<>>
    /\ ViewReturned(SubFileRead(payload, view[1], 2))
    /\ UNCHANGED <<archive, payload, indexed, members, dataFile, scan, resolved, rpm,
                   world, run>>

\* rpm.data_file.read(6) by the caller, as the first use of the stream:
\* the property opens the stream, the read moves its cursor.
DataFileRead ==
    /\ dataFile = None
    /\ data_file(Handle).status = "ok"
    /\ dataFile' = data_file(Handle).h.dataFile
    /\ rpm' = [rpm EXCEPT !.selections = data_file(Handle).h.selections]
    /\ cursor' = data_file(Handle).h.cursor
                 + Len(ReadBytes(payload, data_file(Handle).h.cursor, 6))
    /\ last' = [op |-> "data_file.read", name |-> <<>>, status |-> "ok", value |-> <<>>]
    /\ UNCHANGED <<archive, payload, indexed, members, view, scan, resolved, world, run>>

Next == GetMembers \/ GetMember \/ ExtractFile \/ ViewRead \/ DataFileRead

Spec == Init /\ [][Next]_vars

-----------------------------------------------------------------------------
(* The handle's life: construction in every environment and on every       *)
(* header map, the properties, the methods, and scope exit.                *)

\* The most times the decompressor selection runs on one handle.
MaxSelections == 3

\* The archive the handles are opened on: the file "a" and the terminator.
HandleArchive ==
    [items |-> <<CHOOSE k \in Kinds : k.name = <<97>>>>, shape |-> "trailer"]

\* The arguments of open(): name, mode, fileobj.
OpenNames == {None, "pkg.rpm"}
OpenModes == {"rb", "r", "wb"}
OpenStreams == {None} \cup Streams

InitHandle ==
    /\ archive = HandleArchive
    /\ payload = Build(archive)
    /\ indexed = FALSE
    /\ members = <<>>
    /\ dataFile = None
    /\ cursor = 0
    /\ view = <<>>
    /\ scan = <<>>
    /\ resolved = Records(Scan(payload, 0).members)
    /\ last = [op |-> "none", name |-> <<>>, status |-> "ok", value |-> <<>>]
    /\ rpm = Unopened
    /\ \E env \in Environments, headers \in HeaderMaps : world = NewWorld(env, headers)
    /\ run = <<>>

\* The handle and the world after the constructor returned or raised r;
\* `last` keeps the arguments of the call.
Constructed(r, args) ==
    /\ rpm' = r.rpm
    /\ world' = r.world
    /\ last' = [op |-> "open", name |-> <<>>, status |-> r.status, value |-> <<args>>]

\* rpmfile.open(name, mode, fileobj): return RPMFile(name, mode, fileobj)
Open ==
    /\ rpm.state = "unopened"
    /\ \E name \in OpenNames, mode \in OpenModes, fileobj \in OpenStreams :
          Constructed(__init__(world, name, mode, fileobj),
                      [name |-> name, mode |-> mode, fileobj |-> fileobj])
    /\ UNCHANGED <<archive, payload, indexed, members, dataFile, cursor, view, scan,
                   resolved, run>>

\* rpm.headers
ReadHeaders ==
    /\ rpm.state = "opened"
    /\ last' = [op |-> "headers", name |-> <<>>, status |-> "ok",
                value |-> <<rpm.headers>>]
    /\ UNCHANGED <<archive, payload, indexed, members, dataFile, cursor, view, scan,
                   resolved, rpm, world, run>>

\* rpm.data_offset: self._header_range[1]
ReadDataOffset ==
    /\ rpm.state = "opened"
    /\ last' = [op |-> "data_offset", name |-> <<>>, status |-> "ok",
                value |-> <<rpm.header_range[2]>>]
    /\ UNCHANGED <<archive, payload, indexed, members, dataFile, cursor, view, scan,
                   resolved, rpm, world, run>>

\* A method is called on a constructed handle that was not released; the
\* bound caps the selections a run makes.
Usable == rpm.state = "opened" /\ rpm.selections < MaxSelections

\* The handle after the data_file property returned or raised d.
DataFileReturned(d) ==
    /\ dataFile' = d.h.dataFile
    /\ rpm' = [rpm EXCEPT !.selections = d.h.selections]
    /\ last' = [op |-> "data_file", name |-> <<>>, status |-> d.status, value |-> <<>>]

\* rpm.data_file
DataFile ==
    /\ Usable
    /\ DataFileReturned(data_file(Handle))
    /\ UNCHANGED <<archive, payload, indexed, members, cursor, view, scan, resolved,
                   world, run>>

HandleGetMembers == Usable /\ GetMembers

HandleGetMember == Usable /\ GetMember

HandleExtractFile == Usable /\ ExtractFile

\* The handle and the world after __exit__ left r.
Exited(r) ==
    /\ rpm' = r.rpm
    /\ world' = r.world
    /\ last' = [op |-> "exit", name |-> <<>>, status |-> "ok", value |-> <<>>]

\* The end of a `with` block on the handle.
Exit ==
    /\ rpm.state \in {"opened", "closed"}
    /\ Exited(__exit__(world, rpm))
    /\ UNCHANGED <<archive, payload, indexed, members, dataFile, cursor, view, scan,
                   resolved, run>>

NextHandle ==
    \/ Open \/ ReadHeaders \/ ReadDataOffset \/ DataFile
    \/ HandleGetMembers \/ HandleGetMember \/ HandleExtractFile \/ Exit

SpecHandle == InitHandle /\ [][NextHandle]_vars

-----------------------------------------------------------------------------
(* The record parser and pad on their own: one call on a stream.           *)

\* No handle: the state of the variables a call on a bare stream leaves
\* alone.
NoHandle ==
    /\ indexed = FALSE
    /\ members = <<>>
    /\ dataFile = None
    /\ view = <<>>
    /\ scan = <<>>
    /\ resolved = {}
    /\ rpm = Unopened
    /\ world = NewWorld(FullEnv, GzipHeaders)

\* The largest stream position pad is applied at.
MaxPosition == 127

InitPad ==
    /\ NoHandle
    /\ archive = <<>>
    /\ payload = <<>>
    /\ cursor \in 0..MaxPosition
    /\ last = [op |-> "none", name |-> <<>>, status |-> "ok", value |-> <<>>]
    /\ run = <<>>

\* pad(fileobj) on a stream whose tell() is `cursor`.
Pad ==
    /\ run = <<>>
    /\ run' = <<[op |-> "pad", at |-> cursor, value |-> pad(cursor)]>>
    /\ last' = [op |-> "pad", name |-> <<>>, status |-> "ok", value |-> <<>>]
    /\ UNCHANGED <<archive, payload, indexed, members, dataFile, cursor, view, scan,
                   resolved, rpm, world>>

NextPad == Pad

SpecPad == InitPad /\ [][NextPad]_vars

\* The most filler bytes before a record, and the bytes that follow it.
MaxLead == 3
Following == MagicNew

\* The streams the parser is called on: `lead` filler bytes, one record of
\* an archive (or the terminator), the start of a next record, cut to
\* `length` bytes.
ParserStream(lead, item) == WithRecord(Zeros(lead), MagicNew, item) \o Following

ParserFixtures ==
    {[item |-> item, lead |-> lead, length |-> n] :
        item \in Kinds \cup {TrailerItem}, lead \in 0..MaxLead,
        n \in 0..(Len(MagicNew) + CoderSize + Len(TrailerName) + 16)}

InitParser ==
    /\ NoHandle
    /\ archive \in {f \in ParserFixtures :
                        /\ f.length >= f.lead + Len(MagicNew)
                        /\ f.length <= Len(ParserStream(f.lead, f.item))}
    /\ payload = SubSeq(ParserStream(archive.lead, archive.item), 1, archive.length)
    /\ cursor = archive.lead + Len(MagicNew)
    /\ last = [op |-> "none", name |-> <<>>, status |-> "ok", value |-> <<>>]
    /\ run = <<>>

\* The stream and the call's record after RPMInfo._read returned or raised r.
Parsed(r, skip_content) ==
    /\ run' = <<[op |-> "_read", skip_content |-> skip_content, at |-> cursor,
                 result |-> r]>>
    /\ cursor' = r.pos
    /\ last' = [op |-> "_read", name |-> <<>>, status |-> r.status, value |-> <<>>]

\* RPMInfo._read(b"070701", fileobj, skip_content) with the stream right
\* after the magic.
ReadRecord ==
    /\ run = <<>>
    /\ \E skip_content \in BOOLEAN :
          Parsed(_read(MagicNew, payload, cursor, skip_content), skip_content)
    /\ UNCHANGED <<archive, payload, indexed, members, dataFile, view, scan, resolved,
                   rpm, world>>

NextParser == ReadRecord

SpecParser == InitParser /\ [][NextParser]_vars

-----------------------------------------------------------------------------
(* The while loop of getmembers(), one iteration at a time.                *)

\* The loop's variables: `magic`, the list being filled, the stream's
\* cursor (pos), and where the loop is (pc), with the outcome once it ended.
LoopStart(data, pos) ==
    [op |-> "getmembers", pc |-> "loop", status |-> "scanning", start |-> pos,
     magic |-> ReadBytes(data, pos, 2), pos |-> pos + Len(ReadBytes(data, pos, 2)),
     members |-> <<>>]

\* A slip in the loop: the read at the end of the body left out, so that
\* `magic` keeps its value.
ReadNext_left_out(data, st) == st

\* magic = g.read(2) at the end of the body (line 178)
ReadNext(data, st) ==
    [st EXCEPT !.magic = ReadBytes(data, st.pos, 2),
               !.pos = @ + Len(ReadBytes(data, st.pos, 2))]

\* The loop left with outcome `status` and the cursor at pos.
LoopEnd(st, status, pos) == [st EXCEPT !.pc = "done", !.status = status, !.pos = pos]

\* The body after member = RPMInfo._read(magic, g) returned or raised r
\* (lines 172-178).
AfterRecord(data, st, r) ==
    IF r.status # "ok" THEN LoopEnd(st, r.status, r.pos)
    ELSE IF IsTrailer(r.member) THEN LoopEnd(st, "ok", r.pos)
    ELSE IF ~IsHexField(Field(r.member.header, 1)) THEN LoopEnd(st, "value_error", r.pos)
    ELSE ReadNext(data, [st EXCEPT !.pos = r.pos,
                                   !.members = IF isdir(r.member) THEN @
                                               ELSE Append(@, r.member)])

\* magic += g.read(4); member = RPMInfo._read(magic, g) (lines 169-170);
\* the parser is called once and the body goes on with what it returned.
WithMagic(data, st, more) ==
    Only({AfterRecord(data, st, r) :
            r \in {_read(st.magic \o more, data, st.pos + Len(more), TRUE)}})

\* One test of `while magic:` and, when it holds, one run of the body.
Iterate(data, st) ==
    IF st.magic = <<>> THEN LoopEnd(st, "ok", st.pos)
    ELSE IF st.magic = Magic07 THEN WithMagic(data, st, ReadBytes(data, st.pos, 4))
    ELSE ReadNext(data, st)

\* The most records an archive scanned step by step holds.
MaxScanRecords == 1

\* The streams scanned: every archive of up to MaxScanRecords records,
\* whole, from its start and from its 7th and 8th byte; and the archives
\* that end with the terminator cut to every shorter length.
WholeStreams(a) ==
    {[items |-> a.items, shape |-> a.shape, length |-> Len(Build(a)), start |-> c] :
        c \in {0, 6, 7}}

CutStreams(a) ==
    IF a.shape # "trailer" THEN {}
    ELSE {[items |-> a.items, shape |-> a.shape, length |-> n, start |-> 0] :
            n \in 0..(Len(Build(a)) - 1)}

ScanStreams ==
    UNION {WholeStreams(a) \cup CutStreams(a) :
           a \in [items : SeqsUpTo(Kinds, MaxScanRecords), shape : Shapes]}

InitScan ==
    /\ NoHandle
    /\ archive \in ScanStreams
    /\ payload = SubSeq(Build(archive), 1, archive.length)
    /\ cursor = archive.start
    /\ last = [op |-> "none", name |-> <<>>, status |-> "ok", value |-> <<>>]
    /\ run = <<>>

\* g = self.data_file; magic = g.read(2) (lines 165-166)
ScanEnter ==
    /\ run = <<>>
    /\ run' = <<LoopStart(payload, cursor)>>
    /\ cursor' = LoopStart(payload, cursor).pos
    /\ last' = [op |-> "getmembers", name |-> <<>>, status |-> "scanning", value |-> <<>>]
    /\ UNCHANGED <<archive, payload, indexed, members, dataFile, view, scan, resolved,
                   rpm, world>>

\* One iteration of the while loop (lines 167-178).
ScanIterate ==
    /\ run # <<>>
    /\ run[1].pc = "loop"
    /\ \E st \in {Iterate(payload, run[1])} :
          /\ run' = <<st>>
          /\ cursor' = st.pos
          /\ last' = [last EXCEPT !.status = st.status]
    /\ UNCHANGED <<archive, payload, indexed, members, dataFile, view, scan, resolved,
                   rpm, world>>

NextScan == ScanEnter \/ ScanIterate

\* The interpreter runs the loop on: a step that can be taken is taken.
SpecScan == InitScan /\ [][NextScan]_vars /\ WF_vars(NextScan)

-----------------------------------------------------------------------------
(* RPMInfo.copy_content, one iteration at a time.                          *)

\* min(left, 4096)
ChunkSize == 4096

\* The most whole chunks a member's content holds.
MaxChunks == 2

\* The sizes of the members copied, the bytes the stream holds from the
\* member's content on (enough for the content and its padding, the content
\* alone, or fewer), and where the content starts.
CopySizes == {0, 3} \cup {k * ChunkSize + 1 : k \in 1..MaxChunks}

CopyInputs ==
    UNION {{[size |-> size, start |-> start, held |-> held] :
                start \in {0, 1, 2, 4}, held \in {0, 2, ChunkSize, size, size + 3}} :
           size \in CopySizes}

\* A stream of n bytes.
StreamOf(n) == [i \in 1..n |-> i % 251]

\* The loop's variables: `left`, what destf was given, the stream's cursor
\* (pos), where the loop is (pc), and the parity of the writes made.
CopyStart(size, pos) ==
    [op |-> "copy_content", pc |-> "loop", left |-> size, pos |-> pos,
     written |-> <<>>, writes |-> 0]

\* The body of the loop (lines 83-85), fileobj.read having returned buffer.
CopyChunk(st, buffer) ==
    [st EXCEPT !.left = @ - Len(buffer), !.pos = @ + Len(buffer),
               !.written = @ \o buffer, !.writes = (@ + 1) % 2]

\* One test of `while left != 0:` and one run of the body, or, the loop
\* over, fileobj.seek(pad(fileobj), 1) (line 86).
CopyStep(data, st) ==
    IF st.left # 0
    THEN CopyChunk(st, ReadBytes(data, st.pos, Min(st.left, ChunkSize)))
    ELSE [st EXCEPT !.pc = "done", !.pos = SeekCur(data, st.pos, pad(st.pos))]

InitCopy ==
    /\ NoHandle
    /\ archive \in CopyInputs
    /\ payload = StreamOf(archive.start + archive.held)
    /\ cursor = archive.start
    /\ last = [op |-> "none", name |-> <<>>, status |-> "ok", value |-> <<>>]
    /\ run = <<>>

\* left = self.size (line 81)
CopyEnter ==
    /\ run = <<>>
    /\ run' = <<CopyStart(archive.size, cursor)>>
    /\ last' = [op |-> "copy_content", name |-> <<>>, status |-> "copying", value |-> <<>>]
    /\ UNCHANGED <<archive, payload, indexed, members, dataFile, cursor, view, scan,
                   resolved, rpm, world>>

\* One iteration of the loop, or the seek that follows it.
CopyIterate ==
    /\ run # <<>>
    /\ run[1].pc = "loop"
    /\ run' = <<CopyStep(payload, run[1])>>
    /\ cursor' = CopyStep(payload, run[1]).pos
    /\ last' = [last EXCEPT !.status = IF CopyStep(payload, run[1]).pc = "done"
                                        THEN "ok" ELSE "copying"]
    /\ UNCHANGED <<archive, payload, indexed, members, dataFile, view, scan, resolved,
                   rpm, world>>

NextCopy == CopyEnter \/ CopyIterate

\* The interpreter runs the loop on: a step that can be taken is taken.
SpecCopy == InitCopy /\ [][NextCopy]_vars /\ WF_vars(NextCopy)

-----------------------------------------------------------------------------
(* What the archive holds, from the way it was written.                    *)

\* Where a record written at offset `at` lies: its magic, its content, and
\* the offset of what follows it.
RecordSpan(at, item) ==
    LET name_end == at + Len(MagicNew) + CoderSize + Len(item.name) + 1
        file_start == name_end + pad(name_end)
        content_end == file_start + Len(item.content)
    IN  [item |-> item, magic_at |-> at, file_start |-> file_start,
         next |-> content_end + pad(content_end)]

RECURSIVE Layout(_, _)
Layout(at, items) ==
    IF Len(items) = 0 THEN <<>>
    ELSE LET span == RecordSpan(at, Head(items))
         IN  <<span>> \o Layout(span.next, Tail(items))

\* The records written before the terminator, and the offset they end at.
Written == Layout(0, archive.items)
WrittenEnd == IF Len(Written) = 0 THEN 0 ELSE Written[Len(Written)].next

\* The archive's records are all in the new ASCII format and a TRAILER!!!
\* record follows them.
WellFormed == archive.shape \in {"trailer", "tail"}

\* The terminator of a well-formed archive.
WrittenTrailer == RecordSpan(WrittenEnd, TrailerItem)

\* The non-directory records written, in order.
WrittenFiles == SelectSeq(Written, LAMBDA w : w.item.mode # ModeDir)

\* The handle's index was built by a scan that began at the start of the
\* stream.
ScannedFromStart == scan # <<>> /\ scan[1].start = 0

\* Record m of the index is the written record w.
SameRecord(m, w) ==
    /\ m.name = w.item.name
    /\ m.file_start = w.file_start
    /\ m.size = Len(w.item.content)
    /\ HexInt(Field(m.header, 1)) = w.item.mode

-----------------------------------------------------------------------------
(* C1: on a well-formed archive, the scan of a fresh stream indexes        *)
(* exactly the non-directory records written, in the order written, and    *)
(* no directory record.                                                    *)
C1_IndexIsTheNonDirectoriesInOrder ==
    (ScannedFromStart /\ WellFormed) =>
        /\ scan[1].status = "ok"
        /\ getmembers(payload, Handle).value = members
        /\ Len(members) = Len(WrittenFiles)
        /\ \A i \in 1..Len(members) : SameRecord(members[i], WrittenFiles[i])
        /\ \A i \in 1..Len(members) : HexInt(Field(members[i].header, 1)) # ModeDir

\* getmembers() has returned an index of one record for a well-formed
\* archive that holds a directory and a device node.
C1_Witness ==
    /\ ScannedFromStart /\ WellFormed
    /\ last.op = "getmembers" /\ last.status = "ok"
    /\ Len(Written) = 2 /\ Len(members) = 1
    /\ \E i \in 1..2 : Written[i].item.mode = ModeDir
    /\ \E i \in 1..2 : Written[i].item.mode = ModeDevice

-----------------------------------------------------------------------------
(* C2: the scan stops at the first record named TRAILER!!!. That record is *)
(* not in the index, no record located after it is in the index, and the   *)
(* scan reads no byte after it: its last read() ends inside the record and *)
(* it leaves the cursor at the record's end. A scan from the start of an   *)
(* archive whose records and terminator are all in the new ASCII format    *)
(* does meet the terminator, where it was written.                         *)
RecordEnd(m) == m.file_start + m.size + pad(m.file_start + m.size)

C2_ScanStopsAtTrailer ==
    /\ (scan # <<>> /\ scan[1].trailer # <<>>) =>
          /\ scan[1].status = "ok"
          /\ indexed
          /\ \A i \in 1..Len(members) :
                /\ members[i].name # TrailerName
                /\ members[i].file_start < scan[1].trailer[1].initial_offset
          /\ \A i \in 1..Len(scan[1].parsed) : scan[1].parsed[i].name # TrailerName
          /\ scan[1].read_to <= RecordEnd(scan[1].trailer[1])
          /\ scan[1].pos = Min(RecordEnd(scan[1].trailer[1]), Len(payload))
    /\ (ScannedFromStart /\ WellFormed) =>
          /\ scan[1].trailer # <<>>
          /\ scan[1].trailer[1].file_start = WrittenTrailer.file_start
          /\ scan[1].pos = WrittenTrailer.next

\* A scan has stopped at the terminator of an archive that holds a record and
\* more bytes after the terminator.
C2_Witness ==
    /\ ScannedFromStart /\ archive.shape = "tail"
    /\ scan[1].trailer # <<>>
    /\ scan[1].pos < Len(payload)
    /\ Len(members) >= 1
    /\ last.op = "getmembers"

-----------------------------------------------------------------------------
(* C3: getmember(name) returns the record of that name at the highest      *)
(* position in the index, and the index lists every occurrence of a name   *)
(* the archive holds more than once.                                       *)
Occurrences(ms, name) == {i \in 1..Len(ms) : ms[i].name = name}

C3_LastOccurrenceWins ==
    /\ (last.op = "getmember" /\ last.status = "ok") =>
          /\ Len(last.value) = 1
          /\ Occurrences(members, last.name) # {}
          /\ \E i \in Occurrences(members, last.name) :
                /\ last.value[1] = members[i]
                /\ \A j \in Occurrences(members, last.name) : j <= i
    /\ (ScannedFromStart /\ WellFormed) =>
          \A name \in LookupNames :
              Cardinality(Occurrences(members, name))
                  = Cardinality({i \in 1..Len(WrittenFiles) : WrittenFiles[i].item.name = name})

\* getmember("a") has returned the second of two records named "a".
C3_Witness ==
    /\ last.op = "getmember" /\ last.status = "ok"
    /\ Len(members) = 2
    /\ Cardinality(Occurrences(members, last.name)) = 2
    /\ last.value[1] = members[2]
    /\ last.value[1] # members[1]

-----------------------------------------------------------------------------
(* C4: a view extractfile returned for an indexed member of a well-formed  *)
(* archive, read to its end, has yielded exactly the member's size bytes,  *)
(* the content written for that record.                                    *)
C4_ExtractYieldsContent ==
    (ScannedFromStart /\ WellFormed /\ view # <<>> /\ view[1].eof) =>
        \A i \in 1..Len(members) :
            members[i] = view[1].member =>
                /\ Len(view[1].got) = members[i].size
                /\ view[1].got = WrittenFiles[i].item.content

\* The view of the 3-byte file "a" has been read to its end, in two reads.
C4_Witness ==
    /\ ScannedFromStart /\ WellFormed
    /\ view # <<>> /\ view[1].eof
    /\ view[1].member \in Records(members)
    /\ view[1].member.size = 3
    /\ view[1].got = <<48, 55, 33>>
    /\ last.op = "view.read"

-----------------------------------------------------------------------------
(* C5: for every two consecutive records parsed from a well-formed stream, *)
(* file_start + size plus the trailing padding of the earlier record       *)
(* equals the initial_offset of the later one (initial_offset being the    *)
(* offset of the later record's magic, where the earlier record ends).     *)
ParsedWithTrailer == scan[1].parsed \o scan[1].trailer

C5_NextRecordAtInitialOffset ==
    (ScannedFromStart /\ WellFormed /\ scan[1].status = "ok") =>
        \A i \in 1..(Len(ParsedWithTrailer) - 1) :
            RecordEnd(ParsedWithTrailer[i]) = ParsedWithTrailer[i + 1].initial_offset

-----------------------------------------------------------------------------
(* C6: after a scan that failed with a format error, no record parsed      *)
(* before the bad record is left in the handle's index, and a later        *)
(* getmembers() does not return such records.                              *)
C6_NoPartialIndexAfterFormatError ==
    (scan # <<>> /\ scan[1].status = "bad_magic") =>
        /\ Len(members) = 0
        /\ getmembers(payload, Handle).status = "ok"
              => Len(getmembers(payload, Handle).value) = 0

-----------------------------------------------------------------------------
(* C7: a record position whose magic is not 070701 makes the scan fail     *)
(* with a format error, whether or not the magic begins with "07"; the     *)
(* scan skips no bytes.                                                    *)
C7_OtherMagicIsFormatError ==
    (ScannedFromStart /\ archive.shape \in {"old_magic", "binary"}) =>
        /\ scan[1].status = "bad_magic"
        /\ scan[1].skipped = {}

-----------------------------------------------------------------------------
(* C8: a getmember(name) or extractfile(name) call that fails with the     *)
(* not-found error leaves the handle as getmembers() alone would: an index *)
(* already built, the stream and its cursor are unchanged, the caller's    *)
(* view is unchanged, and every lookup made afterwards returns what it     *)
(* would have returned before the failed call.                             *)
C8_FailedLookupKeepsHandle ==
    [][ (last'.op \in {"getmember", "extractfile"} /\ last'.status = "key_error") =>
            /\ Handle' = getmembers(payload, Handle).h
            /\ indexed =>
                  (indexed' /\ members' = members /\ dataFile' = dataFile /\ cursor' = cursor)
            /\ view' = view
            /\ \A name \in LookupNames :
                  getmember(payload, Handle', name).value
                      = getmember(payload, getmembers(payload, Handle).h, name).value
      ]_vars

\* getmember("q") has failed on a handle whose index holds a record "a".
C8_Witness ==
    /\ last.op = "getmember" /\ last.status = "key_error" /\ last.name = <<113>>
    /\ indexed
    /\ Occurrences(members, <<97>>) # {}

-----------------------------------------------------------------------------
(* C9: once the index is built, no call builds it again: the index and the *)
(* record of the one scan made stay as they are in every step, and         *)
(* getmembers(), getmember() and extractfile() leave the stream and its    *)
(* cursor where they were.                                                 *)
C9_IndexBuiltOnce ==
    [][ indexed =>
            /\ indexed'
            /\ members' = members
            /\ scan' = scan
            /\ last'.op \in {"getmembers", "getmember", "extractfile"} =>
                  (cursor' = cursor /\ dataFile' = dataFile)
      ]_vars

\* A lookup has been served from the index after a view's read moved the
\* stream's cursor away from where the scan left it.
C9_Witness ==
    /\ indexed /\ Len(members) >= 1
    /\ last.op = "getmember" /\ last.status = "ok"
    /\ scan # <<>> /\ cursor # scan[1].pos

-----------------------------------------------------------------------------
(* C10: the first getmembers() scans the stream from offset 0 whatever ran *)
(* on the handle before, so that it ends as the scan of a fresh handle     *)
(* ends and builds the index a fresh handle builds.                        *)
C10_FirstScanFromStart ==
    scan # <<>> =>
        /\ scan[1].status = Scan(payload, 0).status
        /\ members = Scan(payload, 0).members

-----------------------------------------------------------------------------
(* The handle's life: what the claims speak of.                            *)

\* The archive's headers hold the archive_compression tag with value c.
TagIs(c) ==
    /\ "archive_compression" \in DOMAIN world.headers
    /\ world.headers.archive_compression = c

\* The archive declares a codec whose module is missing.
MissingCodec ==
    \/ TagIs("zstd") /\ ~world.env.zstandard
    \/ TagIs("xz") /\ ~world.env.lzma

\* Every codec can be constructed.
AllCodecs == world.env.lzma /\ world.env.zstandard /\ HasBytesIO(world.env)

CapabilityErrors == {"NoLZMAModuleError", "NoZSTANDARDModuleError", "NoBytesIOError"}

\* The calls that reach the data_file property.
StreamCalls == {"data_file", "getmembers", "getmember", "extractfile"}

-----------------------------------------------------------------------------
-----------------------------------------------------------------------------
(* C12: the handle never closes a stream the caller supplied, and after a  *)
(* scope exit a file the handle opened from a path is closed.              *)
C12_ClosesExactlyWhatItOpened ==
    /\ ~world.stream.closed
    /\ (rpm.state = "closed" /\ world.file.opens > 0) => world.file.closed

-----------------------------------------------------------------------------
(* C13: on an archive that declares zstd (or xz) where the zstandard (or   *)
(* lzma) module is missing, open(), headers and data_offset succeed; a     *)
(* capability error is raised only by a call that reaches data_file, every *)
(* call that runs the selection raises it, and it is                       *)
(* NoZSTANDARDModuleError for zstd and NoLZMAModuleError for xz.           *)
C13_CapabilityErrorAtFirstAccess ==
    [][ MissingCodec =>
          /\ (last'.op = "open" /\ last'.value[1].mode = "rb"
                 /\ (last'.value[1].name # None \/ last'.value[1].fileobj = "stream"))
                => (last'.status = "ok" /\ rpm'.state = "opened")
          /\ last'.op = "headers" => (last'.status = "ok" /\ last'.value[1] = world.headers)
          /\ last'.op = "data_offset" =>
                (last'.status = "ok" /\ last'.value[1] = HeaderRange[2])
          /\ last'.status \in CapabilityErrors =>
                (last'.op \in StreamCalls /\ rpm'.selections = rpm.selections + 1)
          /\ rpm'.selections = rpm.selections + 1 =>
                /\ last'.op \in StreamCalls
                /\ dataFile' = None
                /\ last'.status = IF TagIs("zstd") THEN "NoZSTANDARDModuleError"
                                  ELSE "NoLZMAModuleError"
      ]_vars

\* The first getmembers() on a zstd archive has raised
\* NoZSTANDARDModuleError, after headers was read.
C13_Witness ==
    /\ TagIs("zstd") /\ ~world.env.zstandard /\ world.env.lzma
    /\ rpm.state = "opened" /\ rpm.selections = 1
    /\ last.op = "getmembers" /\ last.status = "NoZSTANDARDModuleError"

-----------------------------------------------------------------------------
-----------------------------------------------------------------------------
(* C15: the decompressor selection runs at most once on a handle: once the *)
(* stream is constructed it ran once, and after a first access that failed *)
(* with a capability error it does not run again.                          *)
C15_SelectionRunsAtMostOnce ==
    /\ dataFile # None => rpm.selections = 1
    /\ MissingCodec => rpm.selections <= 1

-----------------------------------------------------------------------------
(* C16: right after open() the handle holds its stream and has not parsed  *)
(* the header range and tag map; the header locator is called at most      *)
(* once, and not before a first access that needs it.                      *)
C16_HeadersParsedLazily ==
    /\ world.locator <= 1
    /\ (last.op = "open" /\ last.status = "ok") =>
          /\ rpm.state = "opened"
          /\ rpm.fileobj # None
          /\ world.locator = 0
          /\ rpm.header_range = <<>>

-----------------------------------------------------------------------------
(* C17: for every record the parser returns, file_start is a multiple of   *)
(* 4; in skip-content mode the stream is left at a multiple of 4, at       *)
(* file_start + size + pad(file_start + size); otherwise it is left at     *)
(* file_start.                                                             *)
C17_RecordAligned ==
    (run # <<>> /\ run[1].op = "_read" /\ run[1].result.status = "ok") =>
        /\ run[1].result.member.file_start % 4 = 0
        /\ run[1].skip_content =>
              /\ cursor % 4 = 0
              /\ cursor = RecordEnd(run[1].result.member)
        /\ ~run[1].skip_content => cursor = run[1].result.member.file_start

-----------------------------------------------------------------------------
(* C18: for every stream position p >= 0, pad at p is (4 - (p mod 4)) mod  *)
(* 4, is one of 0, 1, 2, 3, and p + pad is a multiple of 4.                *)
C18_PaddingLaw ==
    (run # <<>> /\ run[1].op = "pad") =>
        /\ run[1].at = cursor
        /\ run[1].value = (4 - (cursor % 4)) % 4
        /\ run[1].value \in {0, 1, 2, 3}
        /\ (cursor + run[1].value) % 4 = 0

\* pad was applied at the largest position, which is not a multiple of 4.
C18_Witness ==
    /\ run # <<>> /\ run[1].op = "pad"
    /\ cursor = MaxPosition
    /\ run[1].value = (4 - (MaxPosition % 4)) % 4
    /\ run[1].value # 0

-----------------------------------------------------------------------------
(* C19: the scan of getmembers() ends on every finite stream, one without  *)
(* a TRAILER!!! record, one cut in the middle of a record and one with     *)
(* bytes between records included: it returns the records parsed so far or *)
(* raises, as the scan made in one go does.                                *)
ScanEnded ==
    /\ run # <<>>
    /\ run[1].pc = "done"
    /\ run[1].status \in {"ok", "bad_magic", "struct_error", "value_error", "unicode_error"}
    /\ run[1].status = Scan(payload, run[1].start).status
    /\ run[1].members = Scan(payload, run[1].start).members
    /\ cursor = Scan(payload, run[1].start).pos

C19_ScanTerminates == <>ScanEnded

\* The scan of a stream cut inside its second record has ended with
\* struct.error, the first record in the list.
C19_Witness ==
    /\ ScanEnded
    /\ archive.length < Len(Build(archive))
    /\ run[1].status = "struct_error"
    /\ Len(run[1].members) = 1

-----------------------------------------------------------------------------
(* C20: copy_content ends on every stream: where the stream holds the      *)
(* member's size bytes it has written exactly those bytes and skipped the  *)
(* padding, and it also ends where the stream holds fewer.                 *)
CopyEnded ==
    /\ run # <<>>
    /\ run[1].pc = "done"
    /\ archive.held >= archive.size =>
          /\ run[1].written = SubSeq(payload, archive.start + 1, archive.start + archive.size)
          /\ cursor = Min(archive.start + archive.size + pad(archive.start + archive.size),
                          Len(payload))

C20_CopyTerminates == <>CopyEnded

=============================================================================
